---- MODULE Spec2Model ----
(***************************************************************************)
(* Room session broker of the live feedback backend.                       *)
(*                                                                         *)
(* The registry (app/websocket_manager.py, ConnectionManager) and the two  *)
(* websocket endpoints that drive it (app/main.py) are modelled as         *)
(* cooperatively scheduled handlers, one per connection.  A handler runs   *)
(* atomically from one suspension point to the next; the suspension points *)
(* are the awaits of transport operations (accept, send_json, close,       *)
(* receive_json) and a contended acquire of the registry lock.  Each       *)
(* handler keeps a call stack of frames (function, position, locals), so   *)
(* nested calls such as broadcast -> disconnect -> broadcast are executed  *)
(* as the code executes them.                                              *)
(***************************************************************************)
EXTENDS Integers, Sequences, FiniteSets, Bags, TLC

\* ------------------------------------------------------------------ bounds
MaxTeachers == 3
MaxStudents == 2
MaxCodes == 2
MaxSids == 2
MaxFrames == 2
EndpointStudents == 1
RegistrySupervisors == 1
RegistryFrames == 1
EndpointSupervisors == 2
MaxTime == 45
MaxClassTime == 131
MaxAlertFrames == 9
MaxClassFrames == 4
MaxNoFace == 4
AnalyzerSids == 1

\* ------------------------------------------------------------- identities
NoConn == <<"none", 0>>
NoCode == 0
TeacherConns == {<<"t", i>> : i \in 1..MaxTeachers}
Teachers(n) == {<<"t", i>> : i \in 1..n}
Students(n) == {<<"s", i>> : i \in 1..n}
StudentConns == {<<"s", i>> : i \in 1..MaxStudents}
Conns == TeacherConns \cup StudentConns
Codes == 1..MaxCodes
Sids == 1..MaxSids

\* close codes used by the endpoints
CloseRoomClosed == 4003
CloseRoomNotFound == 4004

VARIABLES
    rooms_students,        \* room code -> participant dict (object id, entries)
    rooms_teachers,        \* room code -> supervisor list (object id, list)
    rooms_students_info,   \* room code -> (participant id -> info)
    teacher_rooms,         \* supervisor connection -> room code
    teacher_names,         \* supervisor connection -> name
    lock,                  \* asyncio.Lock: owner and FIFO waiters
    dead_dicts,            \* participant dicts unlinked from the registry
    stack,                 \* handler -> call stack, top first
    hstatus,               \* handler -> "idle" | "run" | "done" | "crashed"
    alive,                 \* connection -> transport still usable
    closed,                \* connection -> close code sent by the server (0 none)
    out,                   \* connection -> bag of the messages delivered to the client
    hist,                  \* history of the run, read by the properties only
    analyzer,              \* the AttentionAnalyzer instance: student_states, last_alert_time
    now,                   \* the clock, in half seconds
    seen                   \* participant id -> its last frame and what came of it,
                           \* with the history the properties read

vars == <<rooms_students, rooms_teachers, rooms_students_info, teacher_rooms,
          teacher_names, lock, dead_dicts, stack, hstatus, alive, closed, out, hist,
          analyzer, now, seen>>

\* ------------------------------------------------------- python containers
EmptyMap == [x \in {} |-> 0]
MapPut(f, k, v) == [x \in (DOMAIN f) \cup {k} |-> IF x = k THEN v ELSE f[x]]
MapDel(f, k) == [x \in (DOMAIN f) \ {k} |-> f[x]]

\* list.remove(x): drops the first occurrence
SeqRemove(s, x) ==
    IF \E i \in 1..Len(s) : s[i] = x
    THEN LET i == CHOOSE k \in 1..Len(s) : s[k] = x /\ \A j \in 1..(k-1) : s[j] # x
         IN  SubSeq(s, 1, i-1) \o SubSeq(s, i+1, Len(s))
    ELSE s
SeqSet(s) == {s[i] : i \in 1..Len(s)}

\* A dict keeps its entries in insertion order; a deleted entry leaves a
\* dummy slot behind, which an iterator skips.
Tomb == [sid |-> 0, ws |-> NoConn]
DLive(d) == SelectSeq(d, LAMBDA e : e.sid # 0)
DUsed(d) == Len(DLive(d))
DHas(d, sid) == \E i \in 1..Len(d) : d[i].sid = sid
DGet(d, sid) == LET i == CHOOSE k \in 1..Len(d) : d[k].sid = sid IN d[i].ws
DSet(d, sid, ws) ==
    IF DHas(d, sid)
    THEN [i \in 1..Len(d) |-> IF d[i].sid = sid THEN [sid |-> sid, ws |-> ws] ELSE d[i]]
    ELSE Append(d, [sid |-> sid, ws |-> ws])
DDel(d, sid) == [i \in 1..Len(d) |-> IF d[i].sid = sid THEN Tomb ELSE d[i]]

\* ---------------------------------------------------------------- messages
NoMsg == [type |-> "none", room |-> NoCode, sid |-> 0, name |-> NoConn, who |-> NoConn,
          seq |-> 0, status |-> "", roster |-> {}]
Msg(type, room, sid, who) == [NoMsg EXCEPT !.type = type, !.room = room, !.sid = sid, !.who = who]

\* ------------------------------------------------------------------ frames
NoIt == [id |-> NoConn, i |-> 0, used |-> 0, left |-> 0]
NoEntry == Tomb
Frame(fn, pc) ==
    [fn |-> fn, pc |-> pc, room |-> NoCode, sid |-> 0, ws |-> NoConn, who |-> NoConn,
     msg |-> NoMsg, it |-> NoIt, cur |-> NoEntry, failed |-> <<>>, todo |-> <<>>,
     ret |-> 0, n |-> 0, status |-> "", alert |-> FALSE]

\* the positions at which a handler is suspended
YieldPcs == {"start", "accept", "wait", "send", "notify", "send_plist", "send_created",
             "recv", "ack", "open"}

\* the whole state as one record, so that a handler's run between two
\* suspension points is a composition of its statements
State ==
    [rooms_students |-> rooms_students, rooms_teachers |-> rooms_teachers,
     rooms_students_info |-> rooms_students_info, teacher_rooms |-> teacher_rooms,
     teacher_names |-> teacher_names, lock |-> lock, dead_dicts |-> dead_dicts,
     stack |-> stack, hstatus |-> hstatus, alive |-> alive, closed |-> closed,
     out |-> out, hist |-> hist, ok |-> TRUE]

Top(st, h) == Head(st.stack[h])
SetTop(st, h, f) == [st EXCEPT !.stack[h] = <<f>> \o Tail(@)]
Goto(st, h, pc) == SetTop(st, h, [Top(st, h) EXCEPT !.pc = pc])
\* call g; the caller resumes at pc when g returns
Call(st, h, pc, g) == [st EXCEPT !.stack[h] = <<g, [Head(@) EXCEPT !.pc = pc]>> \o Tail(@)]

\* a normal return: the value lands in the caller's frame; when the endpoint
\* function itself returns, the server closes the connection
Return(st, h, val) ==
    LET rest == Tail(st.stack[h])
    IN  IF rest = <<>>
        THEN [st EXCEPT !.stack[h] = <<>>, !.hstatus[h] = "done", !.alive[h] = FALSE]
        ELSE [st EXCEPT !.stack[h] = <<[Head(rest) EXCEPT !.ret = val]>> \o Tail(rest)]

\* ---------------------------------------------------------------- the lock
Unlocked == [locked_by |-> NoConn, waiters |-> <<>>]
\* asyncio.Lock.acquire: taken at once when free and nobody is queued,
\* otherwise the caller queues and is suspended
Acquire(st, h) ==
    IF st.lock.locked_by = NoConn /\ st.lock.waiters = <<>>
    THEN Goto([st EXCEPT !.lock.locked_by = h], h, "crit")
    ELSE Goto([st EXCEPT !.lock.waiters = Append(@, h)], h, "wait")
\* asyncio.Lock.release: the first waiter is woken and owns the lock next
Release(st) ==
    IF st.lock.waiters = <<>>
    THEN [st EXCEPT !.lock.locked_by = NoConn]
    ELSE [st EXCEPT !.lock.locked_by = Head(st.lock.waiters), !.lock.waiters = Tail(@)]

\* positions inside an "async with self.lock" block
LockedPcs == {"crit", "notify", "purge", "fin"}

\* ------------------------------------------------------------- exceptions
\* the except clause (as a position) that guards a frame's current position
CatchPc(f) ==
    CASE f.fn = "student_websocket" /\ f.pc \in {"recv", "gen_alert", "chat2", "ack"} -> "exc_disc"
      [] f.fn = "teacher_websocket" /\ f.pc \in {"recv", "chat2", "ack"} -> "exc_disc"
      [] f.fn = "api_supervisor" /\ f.pc = "open" -> "leave"
      [] OTHER -> ""

RECURSIVE Unwind(_, _)
Unwind(st, h) ==
    IF st.stack[h] = <<>>
    THEN \* the endpoint ended with an exception: the server drops the connection
         [st EXCEPT !.hstatus[h] = "crashed", !.alive[h] = FALSE]
    ELSE LET f == Top(st, h)
             s1 == IF f.pc \in LockedPcs THEN Release(st) ELSE st
         IN  IF CatchPc(f) # ""
             THEN Goto(s1, h, CatchPc(f))
             ELSE Unwind([s1 EXCEPT !.stack[h] = Tail(@)], h)

Raise(st, h, kind) == Unwind([st EXCEPT !.hist.exc[h] = kind], h)

\* ---------------------------------------------------------------- transport
\* send_json reaches the client; supervisors see a participant's attention
\* updates in the order of delivery, which hist.misordered keeps track of
Deliver(st, ws, m) ==
    [st EXCEPT !.out[ws] = @ (+) SetToBag({m}),
               !.hist.misordered = @ \/ (m.type = "attention_update"
                    /\ \E x \in BagToSet(st.out[ws]) :
                          x.type = "attention_update" /\ x.who = m.who /\ x.seq >= m.seq)]
\* the transport of ws is usable now; up is the client's side of it
Usable(st, ws, up) == st.alive[ws] /\ up
\* a failed transport operation: the connection is gone from now on
Gone(st, ws) ==
    IF st.alive[ws]
    THEN [st EXCEPT !.alive[ws] = FALSE, !.hist.dropped = @ \cup {ws}]
    ELSE st

\* ------------------------------------------------------------ room_exists
room_exists(st, room_id) ==
    room_id \in DOMAIN st.rooms_teachers /\ Len(st.rooms_teachers[room_id].list) > 0

\* the participant dict an iterator walks: the room's while it is linked,
\* the unlinked object afterwards
DictOf(st, room, id) ==
    IF room \in DOMAIN st.rooms_students /\ st.rooms_students[room].id = id
    THEN st.rooms_students[room].ents
    ELSE IF id \in DOMAIN st.dead_dicts THEN st.dead_dicts[id] ELSE <<>>
\* a broadcast that walks the supervisor list of the room with the lowest code
ListOfFirstRoom(st, room, id) ==
    IF DOMAIN st.rooms_teachers = {}
    THEN <<>>
    ELSE st.rooms_teachers[CHOOSE r \in DOMAIN st.rooms_teachers :
                               \A q \in DOMAIN st.rooms_teachers : r <= q].list

\* the supervisor list an iterator walks; a list is empty when it is unlinked
ListOf(st, room, id) ==
    IF room \in DOMAIN st.rooms_teachers /\ st.rooms_teachers[room].id = id
    THEN st.rooms_teachers[room].list
    ELSE <<>>

\* ------------------------------------------------ broadcast_to_room_teachers
broadcast_to_room_teachers(st, h, f, up) ==
    CASE f.pc = "entry" ->
           IF f.room \notin DOMAIN st.rooms_teachers
           THEN Return(st, h, 0)
           ELSE SetTop(st, h, [f EXCEPT !.pc = "next", !.failed = <<>>,
                                        !.it = [NoIt EXCEPT !.id = st.rooms_teachers[f.room].id]])
      [] f.pc = "next" ->
           LET l == ListOf(st, f.room, f.it.id)
           IN  IF f.it.i < Len(l)
               THEN SetTop(st, h, [f EXCEPT !.pc = "send", !.it.i = @ + 1,
                                            !.cur = [sid |-> 0, ws |-> l[f.it.i + 1]]])
               ELSE Goto(st, h, "cleanup")
      [] f.pc = "send" ->
           IF Usable(st, f.cur.ws, up)
           THEN Goto(Deliver(st, f.cur.ws, f.msg), h, "next")
           ELSE SetTop([Gone(st, f.cur.ws) EXCEPT !.hist.tfailed = @ \cup {f.cur.ws}], h,
                       [f EXCEPT !.pc = "next", !.failed = Append(@, f.cur)])
      [] f.pc = "cleanup" ->
           IF f.failed = <<>>
           THEN Return(st, h, 0)
           ELSE Call(SetTop(st, h, [f EXCEPT !.failed = Tail(@)]), h, "cleanup",
                     [Frame("disconnect_teacher", "lock") EXCEPT !.ws = Head(f.failed).ws])

\* ------------------------------------------------ broadcast_to_room_students
broadcast_to_room_students(st, h, f, up) ==
    CASE f.pc = "entry" ->
           IF f.room \notin DOMAIN st.rooms_students
           THEN Return(st, h, 0)
           ELSE LET d == st.rooms_students[f.room]
                IN  SetTop(st, h, [f EXCEPT !.pc = "next", !.failed = <<>>,
                                            !.it = [id |-> d.id, i |-> 0, used |-> DUsed(d.ents),
                                                    left |-> DUsed(d.ents)]])
      [] f.pc = "next" ->
           LET d == DictOf(st, f.room, f.it.id)
               rest == {k \in (f.it.i + 1)..Len(d) : d[k].sid # 0}
           IN  IF DUsed(d) # f.it.used
               THEN Raise(st, h, "RuntimeError")       \* dictionary changed size during iteration
               ELSE IF rest = {}
               THEN Goto(st, h, "cleanup")
               ELSE IF f.it.left = 0
               THEN Raise(st, h, "RuntimeError")       \* dictionary keys changed during iteration
               ELSE LET k == CHOOSE x \in rest : \A y \in rest : x <= y
                    IN  SetTop(st, h, [f EXCEPT !.pc = "send", !.it.i = k, !.it.left = @ - 1,
                                                 !.cur = d[k]])
      [] f.pc = "send" ->
           IF Usable(st, f.cur.ws, up)
           THEN Goto(Deliver(st, f.cur.ws, f.msg), h, "next")
           ELSE SetTop(Gone(st, f.cur.ws), h, [f EXCEPT !.pc = "next", !.failed = Append(@, f.cur)])
      [] f.pc = "cleanup" ->
           IF f.failed = <<>>
           THEN Return(st, h, 0)
           ELSE Call(SetTop(st, h, [f EXCEPT !.failed = Tail(@)]), h, "cleanup",
                     [Frame("disconnect_student", "lock") EXCEPT
                        !.room = f.room, !.sid = Head(f.failed).sid, !.who = Head(f.failed).ws])

\* ------------------------------------------------------- disconnect_student
\* a disconnect that forgets the connection and keeps the info entry
ForgetConnectionOnly(st, room, sid) ==
    IF room \in DOMAIN st.rooms_students /\ DHas(st.rooms_students[room].ents, sid)
    THEN [st EXCEPT !.rooms_students[room].ents = DDel(@, sid)] ELSE st

\* lines 118-124: the id is deleted from the room's connection map and from
\* its info map, from each if it is there
ForgetStudent(st, room, sid) ==
    LET s1 == IF room \in DOMAIN st.rooms_students /\ DHas(st.rooms_students[room].ents, sid)
              THEN [st EXCEPT !.rooms_students[room].ents = DDel(@, sid)] ELSE st
    IN  IF room \in DOMAIN s1.rooms_students_info /\ sid \in DOMAIN s1.rooms_students_info[room]
        THEN [s1 EXCEPT !.rooms_students_info[room] = MapDel(@, sid)] ELSE s1

disconnect_student(st, h, f) ==
    CASE f.pc = "lock" -> Acquire(st, h)
      [] f.pc = "wait" -> Goto(st, h, "crit")
      [] f.pc = "crit" ->
           LET inS == f.room \in DOMAIN st.rooms_students
                      /\ DHas(st.rooms_students[f.room].ents, f.sid)
               inI == f.room \in DOMAIN st.rooms_students_info
                      /\ f.sid \in DOMAIN st.rooms_students_info[f.room]
               student_name == IF inI THEN st.rooms_students_info[f.room][f.sid].name ELSE NoConn
               s2 == ForgetStudent(st, f.room, f.sid)
               \* the connection whose entry line 119 deletes, when it is not the
               \* one the cleanup runs for
               other == IF inS /\ DGet(st.rooms_students[f.room].ents, f.sid) # f.who
                        THEN {DGet(st.rooms_students[f.room].ents, f.sid)} ELSE {}
               s3 == [s2 EXCEPT !.hist.cleanups[f.who] = IF @ < 2 THEN @ + 1 ELSE @,
                                !.hist.recleaned = @ \/ (s2.hist.cleanups[f.who] > 0 /\ (inS \/ inI)),
                                !.hist.evicted = @ \cup other]
               m == [Msg("student_leave", f.room, f.sid, f.who) EXCEPT !.name = student_name]
           IN  Call(SetTop(Release(s3), h, [f EXCEPT !.msg = m]), h, "b2",
                    [Frame("broadcast_to_room_students", "entry") EXCEPT !.room = f.room, !.msg = m])
      [] f.pc = "b2" ->
           Call(st, h, "ret",
                [Frame("broadcast_to_room_teachers", "entry") EXCEPT !.room = f.room, !.msg = f.msg])
      [] f.pc = "ret" -> Return(st, h, 0)

\* ------------------------------------------------------- disconnect_teacher
\* a teardown that forgets the participant maps
PurgeSupervisorsOnly(st, room) ==
    IF room \in DOMAIN st.rooms_teachers
    THEN [st EXCEPT !.rooms_teachers = MapDel(@, room)] ELSE st

\* lines 281-287: the room's state is dropped from the three maps
PurgeRoom(st, room) ==
    LET s1 == IF room \in DOMAIN st.rooms_teachers
              THEN [st EXCEPT !.rooms_teachers = MapDel(@, room)] ELSE st
        s2 == IF room \in DOMAIN s1.rooms_students
              THEN [s1 EXCEPT !.rooms_students = MapDel(@, room),
                              !.dead_dicts = MapPut(@, s1.rooms_students[room].id,
                                                    s1.rooms_students[room].ents)]
              ELSE s1
    IN  IF room \in DOMAIN s2.rooms_students_info
        THEN [s2 EXCEPT !.rooms_students_info = MapDel(@, room)] ELSE s2

\* a disconnect that returns out of its lock block without releasing the lock
LeaveLocked(st, h, f) ==
    LET s1 == IF f.ws \in DOMAIN st.teacher_rooms
              THEN [st EXCEPT !.teacher_rooms = MapDel(@, f.ws)] ELSE st
        s2 == IF f.ws \in DOMAIN s1.teacher_names
              THEN [s1 EXCEPT !.teacher_names = MapDel(@, f.ws)] ELSE s1
    IN  Return(s2, h, 0)

\* lines 291-294, then the lock is released and the call returns
FinishTeacher(st, h, f) ==
    LET s1 == IF f.ws \in DOMAIN st.teacher_rooms
              THEN [st EXCEPT !.teacher_rooms = MapDel(@, f.ws)] ELSE st
        s2 == IF f.ws \in DOMAIN s1.teacher_names
              THEN [s1 EXCEPT !.teacher_names = MapDel(@, f.ws)] ELSE s1
    IN  Return(Release(s2), h, 0)

\* lines 271-279, one participant: room_closed, then close(4003); a failure is swallowed
NotifyClosed(st, w, room, up) ==
    IF Usable(st, w, up)
    THEN [Deliver(st, w, Msg("room_closed", room, 0, NoConn)) EXCEPT
            !.closed[w] = CloseRoomClosed, !.alive[w] = FALSE, !.hist.tnote[w] = "sent"]
    ELSE [Gone(st, w) EXCEPT !.hist.tnote[w] = "failed"]

\* a disconnect that would close the room whoever is left in it
AnyTeacherLeft(st, room_id) == TRUE

\* line 267: no supervisor is left in the room
LastTeacherLeft(st, room_id) == Len(st.rooms_teachers[room_id].list) = 0

disconnect_teacher(st, h, f, up) ==
    CASE f.pc = "lock" -> Acquire(st, h)
      [] f.pc = "wait" -> Goto(st, h, "crit")
      [] f.pc = "crit" ->
           LET room_id == IF f.ws \in DOMAIN st.teacher_rooms THEN st.teacher_rooms[f.ws] ELSE NoCode
           IN  IF room_id # NoCode /\ room_id \in DOMAIN st.rooms_teachers
               THEN LET s1 == [st EXCEPT !.rooms_teachers[room_id].list = SeqRemove(@, f.ws)]
                    IN  IF LastTeacherLeft(s1, room_id)
                        THEN LET d == IF room_id \in DOMAIN s1.rooms_students
                                      THEN DLive(s1.rooms_students[room_id].ents) ELSE <<>>
                                 todo == [i \in 1..Len(d) |-> d[i].ws]
                                 s2 == s1
                             IN  IF todo = <<>>
                                 THEN FinishTeacher(PurgeRoom(s2, room_id), h, f)
                                 ELSE SetTop(s2, h, [f EXCEPT !.pc = "notify", !.room = room_id,
                                                              !.todo = todo])
                        ELSE FinishTeacher(s1, h, f)
               ELSE FinishTeacher(st, h, f)
      [] f.pc = "notify" ->
           LET s1 == NotifyClosed(st, Head(f.todo), f.room, up)
           IN  IF Tail(f.todo) = <<>>
               THEN FinishTeacher(PurgeRoom(s1, f.room), h, f)
               ELSE SetTop(s1, h, [f EXCEPT !.todo = Tail(@)])

\* ---------------------------------------------------------- connect_student
connect_student(st, h, f) ==
    CASE f.pc = "accept" -> Acquire(st, h)
      [] f.pc = "wait" -> Goto(st, h, "crit")
      [] f.pc = "crit" ->
           IF f.room \notin DOMAIN st.rooms_students
           THEN Return(Release(st), h, 0)
           ELSE IF f.room \notin DOMAIN st.rooms_students_info
           THEN Raise(st, h, "KeyError")
           ELSE LET s1 == [st EXCEPT
                             !.rooms_students[f.room].ents = DSet(@, f.sid, h),
                             !.rooms_students_info[f.room] =
                                 MapPut(@, f.sid, [name |-> h, status |-> "attentive"]),
                             !.hist.joined[h] = f.room]
                    m == [Msg("student_join", f.room, f.sid, h) EXCEPT !.name = h]
                IN  Call(SetTop(Release(s1), h, [f EXCEPT !.msg = m]), h, "b2",
                         [Frame("broadcast_to_room_students", "entry") EXCEPT !.room = f.room, !.msg = m])
      [] f.pc = "b2" ->
           Call(st, h, "ret",
                [Frame("broadcast_to_room_teachers", "entry") EXCEPT !.room = f.room, !.msg = f.msg])
      [] f.pc = "ret" -> Return(st, h, 1)

\* ------------------------------------------------- update_student_attention
\* an update stamped against the order of the frames
StaleAttentionMessage(st, h, f) ==
    [Msg("attention_update", f.room, f.sid, h) EXCEPT
       !.name = st.rooms_students_info[f.room][f.sid].name,
       !.status = f.status, !.seq = MaxFrames + 1 - f.n]

\* lines 229-238: the message built for frame f.n of connection h
AttentionMessage(st, h, f) ==
    [Msg("attention_update", f.room, f.sid, h) EXCEPT
       !.name = st.rooms_students_info[f.room][f.sid].name,
       !.status = f.status, !.seq = f.n]

update_student_attention(st, h, f) ==
    CASE f.pc = "lock" -> Acquire(st, h)
      [] f.pc = "wait" -> Goto(st, h, "crit")
      [] f.pc = "crit" ->
           LET known(s) == f.room \in DOMAIN s.rooms_students_info
                           /\ f.sid \in DOMAIN s.rooms_students_info[f.room]
               s1 == IF known(st)
                     THEN [st EXCEPT !.rooms_students_info[f.room][f.sid].status = f.status]
                     ELSE st
               s2 == Release(s1)
           IN  \* line 233 reads the participant's name without a check
               IF ~known(s2)
               THEN Raise(Goto(s2, h, "bcast"), h, "KeyError")
               ELSE Call(s2, h, "ret",
                         [Frame("broadcast_to_room_teachers", "entry") EXCEPT
                            !.room = f.room,
                            !.msg = AttentionMessage(s2, h, f)])
      [] f.pc = "ret" -> Return(st, h, 0)

\* ------------------------------------------------------- generate_room_id
\* the codes the generator can return: any code of no room in the registry
generate_room_id(st) == Codes \ DOMAIN st.rooms_teachers

\* -------------------------------------------------------------- create_room
create_room(st, h, f, code) ==
    CASE f.pc = "gen" ->
           IF f.room = NoCode
           THEN IF code \in generate_room_id(st)
                THEN Acquire(SetTop(st, h, [f EXCEPT !.room = code]), h)
                ELSE [st EXCEPT !.ok = FALSE]
           ELSE Acquire(st, h)
      [] f.pc = "wait" -> Goto(st, h, "crit")
      [] f.pc = "crit" ->
           LET s1 == IF f.room \notin DOMAIN st.rooms_teachers
                     THEN [st EXCEPT
                             !.rooms_teachers = MapPut(@, f.room, [id |-> h, list |-> <<>>]),
                             !.rooms_students = MapPut(@, f.room, [id |-> h, ents |-> <<>>]),
                             !.rooms_students_info = MapPut(@, f.room, EmptyMap),
                             !.hist.branch[h] = "create"]
                     ELSE [st EXCEPT !.hist.branch[h] = "join"]
               s2 == [s1 EXCEPT !.rooms_teachers[f.room].list = Append(@, h),
                                !.teacher_rooms = MapPut(@, h, f.room),
                                !.hist.entered[h] = f.room]
           IN  Return(Release(s2), h, f.room)

\* ---------------------------------------------------------- connect_teacher
connect_teacher(st, h, f, up) ==
    CASE f.pc = "names" ->
           Call([st EXCEPT !.teacher_names = MapPut(@, h, h)], h, "snap",
                [Frame("create_room", "gen") EXCEPT !.room = f.room])
      [] f.pc = "snap" -> Acquire(SetTop(st, h, [f EXCEPT !.room = f.ret]), h)
      [] f.pc = "wait" -> Goto(st, h, "crit")
      [] f.pc = "crit" ->
           LET students_list == IF f.room \in DOMAIN st.rooms_students_info
                                THEN DOMAIN st.rooms_students_info[f.room] ELSE {}
           IN  SetTop(Release(st), h,
                      [f EXCEPT !.pc = "send_created",
                                !.msg = [Msg("room_created", f.room, 0, h) EXCEPT !.roster = students_list]])
      [] f.pc = "send_created" ->
           IF Usable(st, h, up)
           THEN Return(Deliver(st, h, f.msg), h, f.room)
           ELSE Raise(Gone(st, h), h, "SendError")

\* --------------------------------------------------------- student_websocket
\* what a participant's client can send; the classification of a frame and
\* the alert decision are the analyzer's (app/ai_processor.py) and are taken
\* here as any outcome it can produce: no alert for "attentive" (line 190),
\* an alert or a suppressed one otherwise (lines 196-201)
StudentInputs ==
    {[kind |-> "attention_update", status |-> "attentive", alert |-> FALSE],
     [kind |-> "attention_update", status |-> "drowsy", alert |-> TRUE],
     [kind |-> "chat_message", status |-> "", alert |-> FALSE],
     [kind |-> "webrtc_answer", status |-> "", alert |-> FALSE]}

StatusInputs == {x \in StudentInputs : x.kind = "attention_update" /\ ~x.alert}

student_websocket(st, h, f, inp) ==
    CASE f.pc = "start" ->
           LET s0 == SetTop([st EXCEPT !.hstatus[h] = "run"], h,
                            [f EXCEPT !.room = inp.room, !.sid = inp.sid])
           IN  IF ~room_exists(st, inp.room)
               THEN \* lines 74-82: accept, error message, close(4004), return
                    Return([Deliver(s0, h, Msg("error", inp.room, inp.sid, h)) EXCEPT
                              !.closed[h] = CloseRoomNotFound], h, 0)
               ELSE Call(s0, h, "after_connect",
                         [Frame("connect_student", "accept") EXCEPT !.room = inp.room, !.sid = inp.sid])
      [] f.pc = "after_connect" ->
           IF f.ret = 0
           THEN Return(st, h, 0)
           ELSE LET ids == IF f.room \in DOMAIN st.rooms_students_info
                           THEN DOMAIN st.rooms_students_info[f.room] ELSE {}
                    participants == ids \cup (IF room_exists(st, f.room) THEN {0} ELSE {})
                IN  SetTop(st, h, [f EXCEPT !.pc = "send_plist",
                                            !.msg = [Msg("participant_list", f.room, f.sid, h) EXCEPT
                                                       !.roster = participants]])
      [] f.pc = "send_plist" ->
           IF Usable(st, h, inp.up)
           THEN Goto(Deliver(st, h, f.msg), h, "recv")
           ELSE Raise(Gone(st, h), h, "SendError")
      [] f.pc = "recv" ->
           IF ~Usable(st, h, inp.up)
           THEN Raise(Gone(st, h), h, "WebSocketDisconnect")
           ELSE LET f1 == [f EXCEPT !.n = @ + 1, !.status = inp.status, !.alert = inp.alert]
                    s1 == SetTop(st, h, f1)
                IN  (CASE inp.kind = "attention_update" ->
                           \* line 127: the analyzer's state of this id is
                           \* read and written for this connection's frame
                           Call([s1 EXCEPT !.hist.tracked[f.sid] = @ \cup {h}], h, "gen_alert",
                                [Frame("update_student_attention", "lock") EXCEPT
                                   !.room = f.room, !.sid = f.sid, !.status = inp.status, !.n = f1.n])
                      [] inp.kind = "chat_message" ->
                           Call(s1, h, "chat2",
                                [Frame("broadcast_to_room_teachers", "entry") EXCEPT
                                   !.room = f.room, !.msg = Msg("chat_message", f.room, f.sid, h)])
                      [] inp.kind = "webrtc_answer" ->
                           \* line 180: the manager has no send_to_student
                           Raise(s1, h, "AttributeError")
                      [] inp.kind = "heartbeat" -> Goto(s1, h, "ack")
                      [] OTHER -> Goto(s1, h, "recv"))
      [] f.pc = "gen_alert" ->
           IF f.alert
           THEN Call(st, h, "recv",
                     [Frame("broadcast_to_room_teachers", "entry") EXCEPT
                        !.room = f.room,
                        !.msg = [Msg("alert", f.room, f.sid, h) EXCEPT !.status = f.status, !.seq = f.n]])
           ELSE Goto(st, h, "recv")
      [] f.pc = "chat2" ->
           Call(st, h, "recv",
                [Frame("broadcast_to_room_students", "entry") EXCEPT
                   !.room = f.room, !.msg = Msg("chat_message", f.room, f.sid, h)])
      [] f.pc = "ack" ->
           IF Usable(st, h, inp.up)
           THEN Goto(Deliver(st, h, Msg("heartbeat_ack", f.room, f.sid, h)), h, "recv")
           ELSE Raise(Gone(st, h), h, "SendError")
      [] f.pc = "exc_disc" ->
           Call(st, h, "exc_reset",
                [Frame("disconnect_student", "lock") EXCEPT !.room = f.room, !.sid = f.sid, !.who = h])
      [] f.pc = "exc_reset" ->
           \* lines 228, 232: reset_student_tracking deletes the state of the id
           Return([st EXCEPT !.hist.tracked[f.sid] = {},
                             !.hist.wiped = @ \cup (st.hist.tracked[f.sid] \ {h})], h, 0)

\* --------------------------------------------------------- teacher_websocket
TeacherInputs == {"chat_message", "webrtc_answer"}

teacher_websocket(st, h, f, inp) ==
    CASE f.pc = "start" ->
           Acquire(SetTop([st EXCEPT !.hstatus[h] = "run"], h, [f EXCEPT !.ret = inp.room]), h)
      [] f.pc = "wait" -> Goto(st, h, "crit")
      [] f.pc = "crit" ->
           IF f.ret # NoCode /\ f.ret \in DOMAIN st.rooms_teachers
           THEN \* lines 250-254, 266-267, 270-272
                LET s1 == [st EXCEPT !.rooms_teachers[f.ret].list = Append(@, h),
                                     !.teacher_rooms = MapPut(@, h, f.ret),
                                     !.teacher_names = MapPut(@, h, h),
                                     !.hist.branch[h] = "join",
                                     !.hist.entered[h] = f.ret]
                    students_list == IF f.ret \in DOMAIN s1.rooms_students_info
                                     THEN DOMAIN s1.rooms_students_info[f.ret] ELSE {}
                IN  SetTop(Release(s1), h,
                           [f EXCEPT !.pc = "send_created", !.room = f.ret,
                                     !.msg = [Msg("room_created", f.ret, 0, h) EXCEPT
                                                !.roster = students_list]])
           ELSE \* lines 257-262: the room is stored, then manager.room_ids, which the
                \* manager does not have, raises AttributeError inside the lock block
                IF inp.code \in generate_room_id(st)
                THEN Raise([st EXCEPT
                              !.rooms_teachers = MapPut(@, inp.code, [id |-> h, list |-> <<h>>]),
                              !.rooms_students = MapPut(@, inp.code, [id |-> h, ents |-> <<>>]),
                              !.rooms_students_info = MapPut(@, inp.code, EmptyMap),
                              !.hist.branch[h] = "create",
                              !.hist.entered[h] = inp.code], h, "AttributeError")
                ELSE [st EXCEPT !.ok = FALSE]
      [] f.pc = "send_created" ->
           IF Usable(st, h, inp.up)
           THEN Goto(Deliver(st, h, f.msg), h, "recv")
           ELSE \* lines 285-288
                Call(Gone(st, h), h, "ret", [Frame("disconnect_teacher", "lock") EXCEPT !.ws = h])
      [] f.pc = "recv" ->
           IF ~Usable(st, h, inp.up)
           THEN Raise(Gone(st, h), h, "WebSocketDisconnect")
           ELSE LET s1 == SetTop(st, h, [f EXCEPT !.n = @ + 1])
                IN  (CASE inp.kind = "chat_message" ->
                           Call(s1, h, "chat2",
                                [Frame("broadcast_to_room_teachers", "entry") EXCEPT
                                   !.room = f.room, !.msg = Msg("chat_message", f.room, 0, h)])
                      [] inp.kind = "webrtc_answer" ->
                           \* line 337: the manager has no send_to_student
                           Raise(s1, h, "AttributeError")
                      [] inp.kind = "request_update" -> Goto(s1, h, "ack"))
      [] f.pc = "chat2" ->
           Call(st, h, "recv",
                [Frame("broadcast_to_room_students", "entry") EXCEPT
                   !.room = f.room, !.msg = Msg("chat_message", f.room, 0, h)])
      [] f.pc = "ack" ->
           \* lines 364-372
           IF Usable(st, h, inp.up)
           THEN Goto(Deliver(st, h, [Msg("state_update", f.room, 0, h) EXCEPT
                                       !.roster = IF f.room \in DOMAIN st.rooms_students_info
                                                  THEN DOMAIN st.rooms_students_info[f.room] ELSE {}]),
                     h, "recv")
           ELSE Raise(Gone(st, h), h, "SendError")
      [] f.pc = "exc_disc" ->
           Call(st, h, "ret", [Frame("disconnect_teacher", "lock") EXCEPT !.ws = h])
      [] f.pc = "ret" -> Return(st, h, 0)

\* ------------------------------------------------------------ api_supervisor
\* a supervisor connection served through the registry's own create-or-join
\* operation (connect_teacher) and its leave operation (disconnect_teacher)
api_supervisor(st, h, f, inp) ==
    CASE f.pc = "start" ->
           Call([st EXCEPT !.hstatus[h] = "run"], h, "open",
                [Frame("connect_teacher", "names") EXCEPT !.room = inp.room])
      [] f.pc \in {"open", "leave"} ->
           Call(Gone(st, h), h, "ret", [Frame("disconnect_teacher", "lock") EXCEPT !.ws = h])
      [] f.pc = "ret" -> Return(st, h, 0)

\* ------------------------------------------------------------ ai_processor
\* Times are in half seconds; EAR, nose coordinates and confidences are in
\* hundredths; angles are in hundredths of a degree where they are compared.
DROWSY_EYE_THRESHOLD == 18
DROWSY_TIME_THRESHOLD == 5
HEAD_TURN_THRESHOLD_YAW == 25
HEAD_TURN_THRESHOLD_PITCH == 20
GAZE_THRESHOLD == 25
ALERT_COOLDOWN == 20
NO_MOVEMENT_THRESHOLD == 120
MOVEMENT_SENSITIVITY == 3
\* consecutive frames without landmarks before 'no_face' is reported
NO_FACE_FRAMES == 3

\* the analyzer as constructed (AttentionAnalyzer.__init__)
NewAnalyzer == [student_states |-> EmptyMap, last_alert_time |-> EmptyMap]

\* the "data" of an attention_update: the keys it carries and their values;
\* no keys at all is None or an empty dict
Landmarks(ear, nose_x, nose_y) ==
    [keys |-> {"ear", "nose_x", "nose_y"}, ear |-> ear, nose_x |-> nose_x, nose_y |-> nose_y]
NoLandmarks == [keys |-> {}, ear |-> 0, nose_x |-> 0, nose_y |-> 0]
\* data that carries the client's own status and none of the landmark fields
OnlyStatus == [keys |-> {"status"}, ear |-> 0, nose_x |-> 0, nose_y |-> 0]
\* dict.get(key, default)
Get(d, key, default) == IF key \in d.keys THEN d[key] ELSE default

Abs(x) == IF x < 0 THEN 0 - x ELSE x

\* what analyze_attention returns, with the analyzer it leaves behind
Verdict(an, student_id, state, status, confidence, reason) ==
    [an |-> [an EXCEPT !.student_states[student_id] = state],
     status |-> status, confidence |-> confidence, reason |-> reason]

\* a pose check that never fires
NoPose(nose_x, nose_y) == "none"

\* lines 105-107 and 120, 130: head turned is checked first, then gaze
Pose(nose_x, nose_y) ==
    LET yaw == (nose_x - 50) * 60
        pitch == (nose_y - 50) * 40
    IN  IF Abs(yaw) > HEAD_TURN_THRESHOLD_YAW * 100 \/ Abs(pitch) > HEAD_TURN_THRESHOLD_PITCH * 100
        THEN "head_turned"
        ELSE IF Abs(nose_x - 50) > GAZE_THRESHOLD \/ Abs(nose_y - 50) > GAZE_THRESHOLD
        THEN "gaze_away"
        ELSE "none"

\* open eyes that leave a running closure timer alone
EyesStillTimed(state) == state

\* lines 154-158: the eyes are open, the closure timer is cleared
EyesOpened(state) == [state EXCEPT !.eyes_closed_start = <<>>]

\* a face reported lost on the first frame without landmarks
FaceLostAtOnce(state) == TRUE

\* line 92: enough consecutive frames without landmarks
FaceLost(state) == state.consecutive_no_face >= NO_FACE_FRAMES

\* AttentionAnalyzer.analyze_attention at clock reading current_time
analyze_attention(an, student_id, landmark_data, current_time) ==
    LET state0 == IF student_id \notin DOMAIN an.student_states
                  THEN [eyes_closed_start |-> <<>>,
                        last_movement_time |-> current_time,
                        last_position |-> <<>>,
                        consecutive_no_face |-> 0]
                  ELSE an.student_states[student_id]
        a1 == [an EXCEPT !.student_states = MapPut(@, student_id, state0)]
    IN  IF landmark_data.keys = {}
        THEN LET state == [state0 EXCEPT !.consecutive_no_face = @ + 1]
             IN  IF FaceLost(state)
                 THEN Verdict(a1, student_id, state, "no_face", 0, "No face detected")
                 ELSE Verdict(a1, student_id, state, "attentive", 50, "Temporary detection loss")
        ELSE LET ear == Get(landmark_data, "ear", 100)
                 nose_x == Get(landmark_data, "nose_x", 50)
                 nose_y == Get(landmark_data, "nose_y", 50)
                 current_position == <<nose_x, nose_y, ear>>
                 movement == Abs(nose_x - state0.last_position[1])
                             + Abs(nose_y - state0.last_position[2])
                             + Abs(ear - state0.last_position[3])
                 moved == state0.last_position # <<>> /\ movement > MOVEMENT_SENSITIVITY
                 state1 == [state0 EXCEPT !.consecutive_no_face = 0,
                                          !.last_movement_time = IF moved THEN current_time ELSE @,
                                          !.last_position = current_position]
                 pose == Pose(nose_x, nose_y)
             IN  IF pose = "head_turned"
                 THEN Verdict(a1, student_id, [state1 EXCEPT !.eyes_closed_start = <<>>],
                              "looking_away", 90, "head_turned")
                 ELSE IF pose = "gaze_away"
                 THEN Verdict(a1, student_id, [state1 EXCEPT !.eyes_closed_start = <<>>],
                              "looking_away", 85, "gaze_away")
                 ELSE LET state2 == IF ear < DROWSY_EYE_THRESHOLD
                                    THEN IF state1.eyes_closed_start = <<>>
                                         THEN [state1 EXCEPT !.eyes_closed_start = <<current_time>>]
                                         ELSE state1
                                    ELSE EyesOpened(state1)
                      IN  IF /\ ear < DROWSY_EYE_THRESHOLD
                             /\ current_time - state2.eyes_closed_start[1] >= DROWSY_TIME_THRESHOLD
                          THEN Verdict(a1, student_id, state2, "drowsy", 95, "eyes_closed")
                          ELSE IF current_time - state2.last_movement_time > NO_MOVEMENT_THRESHOLD
                          THEN Verdict(a1, student_id, state2, "looking_away", 70, "no_movement")
                          ELSE Verdict(a1, student_id, state2, "attentive", 100, "attentive")

\* generate_alert returns None
NoAlert == [alert_type |-> "none", severity |-> "none"]

\* lines 203-235: the alert's type is the status; its severity
AlertData(status, reason) ==
    [alert_type |-> status,
     severity |-> IF status = "looking_away"
                  THEN (IF reason = "no_movement" THEN "high" ELSE "medium")
                  ELSE IF status \in {"drowsy", "no_face"} THEN "high" ELSE "medium"]

\* the key of the cooldown table, f"{student_id}_{status}", and the
\* participant id taken as a key of it
AlertKey(student_id, status) == <<student_id, status>>
IdKey(student_id) == <<student_id>>

\* AttentionAnalyzer.generate_alert at clock reading current_time
generate_alert(an, student_id, status, reason, current_time) ==
    LET alert_key == AlertKey(student_id, status)
    IN  IF status = "attentive"
        THEN [an |-> an, alert |-> NoAlert]
        ELSE IF /\ alert_key \in DOMAIN an.last_alert_time
                /\ current_time - an.last_alert_time[alert_key] < ALERT_COOLDOWN
        THEN [an |-> an, alert |-> NoAlert]
        ELSE [an |-> [an EXCEPT !.last_alert_time = MapPut(@, alert_key, current_time)],
              alert |-> AlertData(status, reason)]

\* AttentionAnalyzer.reset_student_tracking: the cooldown table is keyed by
\* f"{student_id}_{status}", so the participant id itself is never a key of it
reset_student_tracking(an, student_id) ==
    LET a1 == IF student_id \in DOMAIN an.student_states
              THEN [an EXCEPT !.student_states = MapDel(@, student_id)] ELSE an
    IN  IF IdKey(student_id) \in DOMAIN a1.last_alert_time
        THEN [a1 EXCEPT !.last_alert_time = MapDel(@, IdKey(student_id))] ELSE a1

\* main.py lines 137-157: what the supervisors of the room are sent for an alert
Relayed(alert) ==
    IF alert = NoAlert THEN "none"
    ELSE IF alert.alert_type = "clear_alert" THEN "clear_alert" ELSE "alert"

\* nothing has been seen of a participant
NoSeen ==
    [frames |-> 0,          \* how many frames the participant has sent
     frame |-> NoLandmarks, at |-> 0, status |-> "none", confidence |-> 0, reason |-> "none",
     alert |-> NoAlert, relayed |-> "none",
     prev |-> "none",        \* the status of the frame before
     active |-> FALSE,       \* an alert was emitted and no frame was attentive since
     was_active |-> FALSE,   \* the same, before the last frame
     alert_at |-> <<>>,      \* when the last alert was emitted
     before_at |-> <<>>,     \* the same, before the last frame
     sent |-> 0,             \* alerts emitted since the status last changed
     run_start |-> <<>>,     \* first frame of the present run of closed-eye, in-pose frames
     low_since |-> <<>>,     \* first closed-eye frame since the eyes were last open
     recovered |-> FALSE,    \* the eyes have opened before a closure had lasted the
                             \* drowsy time
     missing |-> 0,          \* the frames without landmarks that end at the last frame
     bare |-> TRUE,          \* no frame of the session has carried a landmark field
     twin |-> "none"]        \* the status of the last frame had the participant's last
                             \* significant movement been at that frame's time

\* the frame has landmarks, EAR below the threshold
EyesClosed(frame) == frame.keys # {} /\ Get(frame, "ear", 100) < DROWSY_EYE_THRESHOLD
\* the frame has landmarks, EAR at or above the threshold
EyesOpen(frame) == frame.keys # {} /\ Get(frame, "ear", 100) >= DROWSY_EYE_THRESHOLD
\* the frame has landmarks and its pose or gaze is beyond a threshold
OutOfPose(frame) ==
    /\ frame.keys # {}
    /\ LET x == Abs(Get(frame, "nose_x", 50) - 50)
           y == Abs(Get(frame, "nose_y", 50) - 50)
       IN  \/ x * 60 > HEAD_TURN_THRESHOLD_YAW * 100
           \/ y * 40 > HEAD_TURN_THRESHOLD_PITCH * 100
           \/ x > GAZE_THRESHOLD
           \/ y > GAZE_THRESHOLD

\* the frame carries none of the fields the analyzer reads
FieldsAbsent(frame) == frame.keys \cap {"ear", "nose_x", "nose_y"} = {}

\* the analyzer with the last significant movement of the participant at t
MovedAt(an, student_id, t) ==
    IF student_id \in DOMAIN an.student_states
    THEN [an EXCEPT !.student_states[student_id].last_movement_time = t]
    ELSE an

\* the record of a frame of a participant: verdict v, alert decision alert,
\* and the verdict w of the run that differs in the last movement only
Observe(s, frame, t, v, alert, w) ==
    [frames |-> s.frames + 1,
     frame |-> frame, at |-> t, status |-> v.status, confidence |-> v.confidence,
     reason |-> v.reason, alert |-> alert, relayed |-> Relayed(alert),
     prev |-> s.status,
     active |-> IF alert # NoAlert THEN TRUE
                ELSE IF v.status = "attentive" THEN FALSE ELSE s.active,
     was_active |-> s.active,
     alert_at |-> IF alert # NoAlert THEN <<t>> ELSE s.alert_at,
     before_at |-> s.alert_at,
     sent |-> (IF v.status = s.status THEN s.sent ELSE 0) + (IF alert # NoAlert THEN 1 ELSE 0),
     run_start |-> IF EyesClosed(frame) /\ ~OutOfPose(frame)
                   THEN (IF s.run_start = <<>> THEN <<t>> ELSE s.run_start)
                   ELSE <<>>,
     low_since |-> IF EyesClosed(frame) THEN (IF s.low_since = <<>> THEN <<t>> ELSE s.low_since)
                   ELSE IF EyesOpen(frame) THEN <<>> ELSE s.low_since,
     recovered |-> \/ s.recovered
                   \/ /\ EyesOpen(frame) /\ s.low_since # <<>>
                      /\ t - s.low_since[1] < DROWSY_TIME_THRESHOLD,
     missing |-> IF frame.keys = {} THEN s.missing + 1 ELSE 0,
     bare |-> s.bare /\ FieldsAbsent(frame),
     twin |-> w.status]

\* ---------------------------------------------------------------- execution
NoInput == [room |-> NoCode, sid |-> 0, code |-> NoCode, kind |-> "", status |-> "", alert |-> FALSE,
            up |-> TRUE]

\* one statement of handler h
Exec(st, h, inp) ==
    LET f == Top(st, h)
    IN  CASE f.fn = "student_websocket" -> student_websocket(st, h, f, inp)
          [] f.fn = "teacher_websocket" -> teacher_websocket(st, h, f, inp)
          [] f.fn = "api_supervisor" -> api_supervisor(st, h, f, inp)
          [] f.fn = "connect_student" -> connect_student(st, h, f)
          [] f.fn = "connect_teacher" -> connect_teacher(st, h, f, inp.up)
          [] f.fn = "create_room" -> create_room(st, h, f, inp.code)
          [] f.fn = "disconnect_student" -> disconnect_student(st, h, f)
          [] f.fn = "disconnect_teacher" -> disconnect_teacher(st, h, f, inp.up)
          [] f.fn = "update_student_attention" -> update_student_attention(st, h, f)
          [] f.fn = "broadcast_to_room_teachers" -> broadcast_to_room_teachers(st, h, f, inp.up)
          [] f.fn = "broadcast_to_room_students" -> broadcast_to_room_students(st, h, f, inp.up)

AtYield(st, h) == ~st.ok \/ st.stack[h] = <<>> \/ Top(st, h).pc \in YieldPcs

\* the maps of the registry that the handlers share
SharedMaps(st) ==
    <<st.rooms_teachers, st.rooms_students, st.rooms_students_info, st.teacher_rooms,
      st.teacher_names>>

\* one statement of handler h; hist.unguarded records that it wrote a shared
\* map while h did not hold the lock
Traced(st, h, inp) ==
    LET s == Exec(st, h, inp)
    IN  IF SharedMaps(s) # SharedMaps(st) /\ st.lock.locked_by # h
        THEN [s EXCEPT !.hist.unguarded = TRUE]
        ELSE s

\* handler h runs until it is suspended again or ends
RECURSIVE Run(_, _, _)
Run(st, h, inp) == IF AtYield(st, h) THEN st ELSE Run(Traced(st, h, inp), h, inp)

\* from state s0, handler h is resumed at its suspension point and runs to
\* the next one
Step(s0, h, inp) ==
    \E s \in {Run(Traced(s0, h, inp), h, inp)} :
        /\ s.ok
        /\ rooms_students' = s.rooms_students
        /\ rooms_teachers' = s.rooms_teachers
        /\ rooms_students_info' = s.rooms_students_info
        /\ teacher_rooms' = s.teacher_rooms
        /\ teacher_names' = s.teacher_names
        /\ lock' = s.lock
        /\ dead_dicts' = s.dead_dicts
        /\ stack' = s.stack
        /\ hstatus' = s.hstatus
        /\ alive' = s.alive
        /\ closed' = s.closed
        /\ out' = s.out
        /\ hist' = s.hist
        /\ UNCHANGED <<analyzer, now, seen>>
Resume(h, inp) == Step(State, h, inp)
\* the server starts the endpoint function fn for a new connection h
Begin(h, fn, inp) == Step([State EXCEPT !.stack[h] = <<Frame(fn, "start")>>], h, inp)

At(h, fn, pc) == stack[h] # <<>> /\ Head(stack[h]).fn = fn /\ Head(stack[h]).pc = pc

\* ------------------------------------------------------------------ initial
Init ==
    /\ rooms_students = EmptyMap
    /\ rooms_teachers = EmptyMap
    /\ rooms_students_info = EmptyMap
    /\ teacher_rooms = EmptyMap
    /\ teacher_names = EmptyMap
    /\ lock = Unlocked
    /\ dead_dicts = EmptyMap
    /\ stack = [h \in Conns |-> <<>>]
    /\ hstatus = [h \in Conns |-> "idle"]
    /\ alive = [h \in Conns |-> TRUE]
    /\ closed = [h \in Conns |-> 0]
    /\ out = [h \in Conns |-> EmptyBag]
    /\ hist = [exc |-> [h \in Conns |-> "none"],
               dropped |-> {},
               branch |-> [h \in TeacherConns |-> "none"],
               joined |-> [h \in StudentConns |-> NoCode],
               tnote |-> [h \in StudentConns |-> "none"],
               cleanups |-> [h \in StudentConns |-> 0],
               recleaned |-> FALSE,
               misordered |-> FALSE,
               tfailed |-> {},
               unguarded |-> FALSE,
               tracked |-> [sid \in Sids |-> {}],
               entered |-> [h \in TeacherConns |-> NoCode],
               evicted |-> {},
               wiped |-> {}]
    /\ analyzer = NewAnalyzer
    /\ now = 0
    /\ seen = [sid \in Sids |-> NoSeen]

\* ------------------------------------------------------------------ actions
\* a participant's client opens /ws/student/{room_id}/{student_id}
StudentConnects(h, room, sid) ==
    /\ hstatus[h] = "idle"
    /\ Begin(h, "student_websocket", [NoInput EXCEPT !.room = room, !.sid = sid])

\* a supervisor's client opens /ws/teacher, with or without room_id
TeacherConnects(h, room, code) ==
    /\ hstatus[h] = "idle"
    /\ Begin(h, "teacher_websocket", [NoInput EXCEPT !.room = room, !.code = code])

\* a supervisor connection is handed to connect_teacher
SupervisorConnects(h, room, code) ==
    /\ hstatus[h] = "idle"
    /\ Begin(h, "api_supervisor", [NoInput EXCEPT !.room = room, !.code = code])

\* connect_student line 52 has accepted; the handler goes for the lock
StudentAccepted(h) ==
    /\ At(h, "connect_student", "accept")
    /\ Resume(h, NoInput)

\* a queued handler is woken as the lock's next owner
LockGranted(h, code) ==
    /\ stack[h] # <<>>
    /\ Head(stack[h]).pc = "wait"
    /\ lock.locked_by = h
    /\ code # NoCode <=> Head(stack[h]).fn = "teacher_websocket"
    /\ Resume(h, [NoInput EXCEPT !.code = code])

\* The transport operation of a step meets a client that is still there
\* (up) or one that has gone away; for a connection already known to be
\* dead only the second is possible.
Fate(ws) == IF alive[ws] THEN BOOLEAN ELSE {FALSE}
WithFate(up) == [NoInput EXCEPT !.up = up]

\* the next send_json of a broadcast to supervisors
BroadcastTeachersSend(h, up) ==
    /\ At(h, "broadcast_to_room_teachers", "send")
    /\ up \in Fate(Head(stack[h]).cur.ws)
    /\ Resume(h, WithFate(up))

\* the next send_json of a broadcast to participants
BroadcastStudentsSend(h, up) ==
    /\ At(h, "broadcast_to_room_students", "send")
    /\ up \in Fate(Head(stack[h]).cur.ws)
    /\ Resume(h, WithFate(up))

\* teardown tells the next participant that the room is closed
TeardownNotify(h, up) ==
    /\ At(h, "disconnect_teacher", "notify")
    /\ up \in Fate(Head(Head(stack[h]).todo))
    /\ Resume(h, WithFate(up))

SendParticipantList(h, up) ==
    /\ At(h, "student_websocket", "send_plist")
    /\ up \in Fate(h)
    /\ Resume(h, WithFate(up))

SendRoomCreated(h, up) ==
    /\ At(h, "teacher_websocket", "send_created") \/ At(h, "connect_teacher", "send_created")
    /\ up \in Fate(h)
    /\ Resume(h, WithFate(up))

\* receive_json returns a message of the participant's client
StudentReceives(h, inp, F) ==
    /\ At(h, "student_websocket", "recv")
    /\ alive[h]
    /\ Head(stack[h]).n < F
    /\ Resume(h, [NoInput EXCEPT !.kind = inp.kind, !.status = inp.status, !.alert = inp.alert])

\* receive_json raises: the participant's connection is gone
StudentDisconnected(h) ==
    /\ At(h, "student_websocket", "recv")
    /\ Resume(h, WithFate(FALSE))

TeacherReceives(h, kind, F) ==
    /\ At(h, "teacher_websocket", "recv")
    /\ alive[h]
    /\ Head(stack[h]).n < F
    /\ Resume(h, [NoInput EXCEPT !.kind = kind])

TeacherDisconnected(h) ==
    /\ At(h, "teacher_websocket", "recv")
    /\ Resume(h, WithFate(FALSE))

\* the supervisor's connection is gone and its owner leaves the room
SupervisorLeaves(h) ==
    /\ At(h, "api_supervisor", "open")
    /\ Resume(h, WithFate(FALSE))

\* participant ids are interchangeable: connection i uses one of the first i
SidsOf(h) == {sid \in Sids : sid <= h[2]}

\* The steps every deployment shares, for the supervisors T and the
\* participants S that take part, each participant sending up to F frames.
Handlers(T, S, F, I) ==
    \/ \E h \in S, room \in Codes : \E sid \in SidsOf(h) : StudentConnects(h, room, sid)
    \/ \E h \in S : StudentAccepted(h)
    \/ \E h \in T \cup S, up \in BOOLEAN : BroadcastTeachersSend(h, up)
    \/ \E h \in T \cup S, up \in BOOLEAN : BroadcastStudentsSend(h, up)
    \/ \E h \in S, up \in BOOLEAN : SendParticipantList(h, up)
    \/ \E h \in T, up \in BOOLEAN : SendRoomCreated(h, up)
    \/ \E h \in S, inp \in I : StudentReceives(h, inp, F)
    \/ \E h \in S : StudentDisconnected(h)

\* the server as deployed: supervisors arrive at /ws/teacher
Endpoint(T, S, F, I) ==
    \/ Handlers(T, S, F, I)
    \/ \E h \in T, room \in Codes \cup {NoCode}, code \in Codes : TeacherConnects(h, room, code)
    \/ \E h \in T, kind \in TeacherInputs : TeacherReceives(h, kind, F)
    \/ \E h \in T : TeacherDisconnected(h)

\* the registry driven through its own supervisor operations
Registry(T, S, F, I) ==
    \/ Handlers(T, S, F, I)
    \/ \E h \in T, room \in Codes \cup {NoCode}, code \in Codes : SupervisorConnects(h, room, code)
    \/ \E h \in T : SupervisorLeaves(h)
    \/ \E h \in T \cup S, code \in Codes \cup {NoCode} : LockGranted(h, code)
    \/ \E h \in T \cup S, up \in BOOLEAN : TeardownNotify(h, up)

\* two supervisors and one participant that sends every kind of message
Next == Endpoint(Teachers(EndpointSupervisors), Students(EndpointStudents), MaxFrames, StudentInputs)

Spec == Init /\ [][Next]_vars

\* one supervisor and two participants that report their status
NextRegistry == Registry(Teachers(RegistrySupervisors), Students(MaxStudents), RegistryFrames, StatusInputs)

SpecRegistry == Init /\ [][NextRegistry]_vars

\* two supervisors, which may share a room, and one participant that reports
\* its status
NextSupervisors == Registry(Teachers(EndpointSupervisors), Students(EndpointStudents), RegistryFrames, StatusInputs)

SpecSupervisors == Init /\ [][NextSupervisors]_vars

\* supervisors A that are handed to connect_teacher next to supervisors T
\* that arrive at /ws/teacher, with participants S that join and leave
\* without sending frames
Deployment(A, T, S) ==
    \/ \E h \in S, room \in Codes : \E sid \in SidsOf(h) : StudentConnects(h, room, sid)
    \/ \E h \in S : StudentAccepted(h)
    \/ \E h \in A \cup T \cup S, up \in BOOLEAN : BroadcastTeachersSend(h, up)
    \/ \E h \in A \cup T \cup S, up \in BOOLEAN : BroadcastStudentsSend(h, up)
    \/ \E h \in S, up \in BOOLEAN : SendParticipantList(h, up)
    \/ \E h \in A \cup T, up \in BOOLEAN : SendRoomCreated(h, up)
    \/ \E h \in S : StudentDisconnected(h)
    \/ \E h \in A, code \in Codes : SupervisorConnects(h, NoCode, code)
    \/ \E h \in A : SupervisorLeaves(h)
    \/ \E h \in T, room \in Codes \cup {NoCode}, code \in Codes : TeacherConnects(h, room, code)
    \/ \E h \in T : TeacherDisconnected(h)
    \/ \E h \in A \cup T \cup S, code \in Codes \cup {NoCode} : LockGranted(h, code)
    \/ \E h \in A \cup T \cup S, up \in BOOLEAN : TeardownNotify(h, up)

\* one supervisor of each kind and one participant
LockUsers ==
    [A |-> Teachers(RegistrySupervisors),
     T |-> Teachers(EndpointSupervisors) \ Teachers(RegistrySupervisors),
     S |-> Students(EndpointStudents)]

NextLock == Deployment(LockUsers.A, LockUsers.T, LockUsers.S)

\* handler h has been handed the lock and is ready to run on
GrantReady(h) == stack[h] # <<>> /\ Head(stack[h]).pc = "wait" /\ lock.locked_by = h
\* handler h is suspended at a send or a close of the teardown
NotifyReady(h) == At(h, "disconnect_teacher", "notify")

\* The event loop resumes every task that is ready: the handler that has been
\* handed the lock runs on, and a send of the teardown completes or fails.
\* This is weak fairness of the two steps, WF_vars(A), written out as
\* []<>~ENABLED <<A>>_vars \/ []<><<A>>_vars with the condition under which
\* the step is enabled.
LockFairness ==
    \A h \in LockUsers.A \cup LockUsers.T \cup LockUsers.S :
        /\ \/ []<>~GrantReady(h)
           \/ []<><<\E code \in Codes \cup {NoCode} : LockGranted(h, code)>>_vars
        /\ \/ []<>~NotifyReady(h)
           \/ []<><<\E up \in BOOLEAN : TeardownNotify(h, up)>>_vars

SpecLock == Init /\ [][NextLock]_vars /\ LockFairness

\* supervisors T that each open a room of their own and stay, and
\* participants S that join the rooms and report their status; a connection
\* is lost only at a send of a broadcast
Rooms(T, S, F, I) ==
    \/ \E h \in T, code \in Codes : SupervisorConnects(h, NoCode, code)
    \/ \E h \in T : SendRoomCreated(h, TRUE)
    \/ \E h \in S, room \in Codes : \E sid \in SidsOf(h) : StudentConnects(h, room, sid)
    \/ \E h \in S : StudentAccepted(h)
    \/ \E h \in S : SendParticipantList(h, TRUE)
    \/ \E h \in T \cup S, up \in BOOLEAN : BroadcastTeachersSend(h, up)
    \/ \E h \in T \cup S, up \in BOOLEAN : BroadcastStudentsSend(h, up)
    \/ \E h \in S, inp \in I : StudentReceives(h, inp, F)
    \/ \E h \in T \cup S : LockGranted(h, NoCode)
    \/ \E h \in T \cup S, up \in BOOLEAN : TeardownNotify(h, up)

NextRooms == Rooms(Teachers(EndpointSupervisors), Students(MaxStudents), RegistryFrames, StatusInputs)

SpecRooms == Init /\ [][NextRooms]_vars

\* the registry with supervisors that all ask for a new room (no requested
\* code) and participants that join and leave without sending frames
Creators(T, S) ==
    \/ \E h \in S, room \in Codes : \E sid \in SidsOf(h) : StudentConnects(h, room, sid)
    \/ \E h \in S : StudentAccepted(h)
    \/ \E h \in T \cup S, up \in BOOLEAN : BroadcastTeachersSend(h, up)
    \/ \E h \in T \cup S, up \in BOOLEAN : BroadcastStudentsSend(h, up)
    \/ \E h \in S, up \in BOOLEAN : SendParticipantList(h, up)
    \/ \E h \in T, up \in BOOLEAN : SendRoomCreated(h, up)
    \/ \E h \in S : StudentDisconnected(h)
    \/ \E h \in T, code \in Codes : SupervisorConnects(h, NoCode, code)
    \/ \E h \in T : SupervisorLeaves(h)
    \/ \E h \in T \cup S, code \in Codes \cup {NoCode} : LockGranted(h, code)
    \/ \E h \in T \cup S, up \in BOOLEAN : TeardownNotify(h, up)

\* three supervisors that ask for new rooms and one participant
NextCreators == Creators(Teachers(MaxTeachers), Students(EndpointStudents))

SpecCreators == Init /\ [][NextCreators]_vars

\* ----------------------------------------------------------- the analyzer
\* the registry and the connections, which the analyzer does not touch
registry == <<rooms_students, rooms_teachers, rooms_students_info, teacher_rooms,
              teacher_names, lock, dead_dicts, stack, hstatus, alive, closed, out, hist>>

\* main.py lines 118-157: dt after the clock's last reading, an
\* attention_update of participant sid arrives with landmark data frame; it
\* is analyzed and the alert decision is taken and relayed
AttentionFrame(sid, frame, dt, T, N) ==
    /\ now + dt <= T
    /\ seen[sid].frames < N
    /\ frame.keys = {} /\ sid \in DOMAIN analyzer.student_states
           => analyzer.student_states[sid].consecutive_no_face < MaxNoFace
    /\ LET t == now + dt
           v == analyze_attention(analyzer, sid, frame, t)
           g == generate_alert(v.an, sid, v.status, v.reason, t)
           w == analyze_attention(MovedAt(analyzer, sid, t), sid, frame, t)
       IN  /\ analyzer' = g.an
           /\ now' = t
           /\ seen' = [seen EXCEPT ![sid] = Observe(@, frame, t, v, g.alert, w)]
    /\ UNCHANGED registry

\* main.py lines 225-232: the participant's session ends
SessionEnds(sid) ==
    /\ seen[sid].status # "none"
    /\ analyzer' = reset_student_tracking(analyzer, sid)
    /\ seen' = [seen EXCEPT ![sid] = [@ EXCEPT !.status = "none", !.prev = "none", !.sent = 0,
                                                !.run_start = <<>>, !.low_since = <<>>,
                                                !.recovered = FALSE, !.missing = 0,
                                                !.bare = TRUE, !.twin = "none"]]
    /\ UNCHANGED now
    /\ UNCHANGED registry

\* the frames of participants S drawn from F, arriving D apart up to time T,
\* at most N of each participant
Analysis(S, F, D, T, N) ==
    \/ \E sid \in S, frame \in F, dt \in D : AttentionFrame(sid, frame, dt, T, N)
    \/ \E sid \in S : SessionEnds(sid)

\* frames that are attentive, closed-eyed, looking away, and without a face
AlertFrames ==
    {NoLandmarks, Landmarks(90, 50, 50), Landmarks(10, 50, 50), Landmarks(90, 80, 50)}
\* 2.5 s, 10 s
AlertDelays == {5, 20}

\* one participant whose frames raise every kind of alert
NextAlerts == Analysis(1..AnalyzerSids, AlertFrames, AlertDelays, MaxTime, MaxAlertFrames)

SpecAlerts == Init /\ [][NextAlerts]_vars

\* frames with the eyes just closed (EAR 0.17) or just open (0.19), the nose
\* centred, off to the side (gaze, head turn) or below the picture (pitch),
\* and frames without a face
ClassFrames ==
    {NoLandmarks, OnlyStatus}
    \cup {Landmarks(ear, nose_x, 50) : ear \in {17, 19}, nose_x \in {50, 80, 95}}
    \cup {Landmarks(ear, 50, 105) : ear \in {17, 19}}
\* 1 s, 1.5 s, 60.5 s
ClassDelays == {2, 3, 121}

\* one participant whose frames reach every classification
NextAnalyzer == Analysis(1..AnalyzerSids, ClassFrames, ClassDelays, MaxClassTime, MaxClassFrames)

SpecAnalyzer == Init /\ [][NextAnalyzer]_vars
\* =================================================================== claims
\* no "async with self.lock" block is in progress
NoCriticalSection == lock.locked_by = NoConn
\* no handler is in the middle of anything
AllEnded == \A h \in Conns : stack[h] = <<>>
\* the handler of connection h is still serving it
Serving(h) == hstatus[h] = "run"
Received(h, type) == \E m \in BagToSet(out[h]) : m.type = type
Supervisors(r) == SeqSet(rooms_teachers[r].list)

\* C1: outside a critical section every room of the registry has a non-empty
\* supervisor set, and every connection in it is live: its handler is still
\* running and the connection is mapped to that room for cleanup.
C1_RoomsHaveLiveSupervisors ==
    NoCriticalSection =>
        \A r \in DOMAIN rooms_teachers :
            /\ Supervisors(r) # {}
            /\ \A t \in Supervisors(r) :
                 /\ Serving(t)
                 /\ t \in DOMAIN teacher_rooms
                 /\ teacher_rooms[t] = r

\* C2: a supervisor connection that asked for a new room (no code, or a code
\* of no room) and whose client did not go away has, once its set-up is over,
\* received room_created; while its handler serves it, it is a member of the
\* room's supervisor set and mapped to the room.
C2_CreatorRegisteredAndTold ==
    \A t \in TeacherConns :
        (hist.branch[t] = "create" /\ t \notin hist.dropped
           /\ (stack[t] = <<>> \/ Head(stack[t]).pc \in {"recv", "open"}))
        => /\ Received(t, "room_created")
           /\ Serving(t) => /\ t \in DOMAIN teacher_rooms
                            /\ teacher_rooms[t] \in DOMAIN rooms_teachers
                            /\ t \in Supervisors(teacher_rooms[t])
\* the connections registered as participants of room r
Participants(r) == {e.ws : e \in SeqSet(DLive(rooms_students[r].ents))}
Exists(r) == r \in DOMAIN rooms_teachers /\ Len(rooms_teachers[r].list) > 0
\* the step removes room r from the registry
TornDown(r) == r \in DOMAIN rooms_teachers /\ r \notin DOMAIN rooms_teachers'

\* C3: a room is left without supervisors only inside the disconnect that
\* tears it down; the step that removes the room takes its last supervisors
\* out of the registry and removes its code from the
\* supervisor, participant and status maps, and by then every participant of
\* the room has been sent room_closed and closed with 4003 (a participant
\* whose connection was already gone cannot be told); room_exists becomes
\* true for a code again only by the creation of a new room under it.
C3_TeardownClosesAndPurges ==
    [][ /\ NoCriticalSection => \A r \in DOMAIN rooms_teachers : rooms_teachers[r].list # <<>>
        /\ \A r \in Codes :
             TornDown(r) =>
                /\ \A t \in Supervisors(r) : t \notin DOMAIN teacher_rooms'
                /\ r \notin DOMAIN rooms_students'
                /\ r \notin DOMAIN rooms_students_info'
                /\ ~Exists(r)'
                /\ \A w \in Participants(r) :
                     /\ ~alive'[w]
                     /\ \/ /\ hist.tnote'[w] = "sent"
                           /\ Received(w, "room_closed")'
                           /\ closed'[w] = CloseRoomClosed
                        \/ /\ hist.tnote'[w] = "failed"
                           /\ w \in hist.dropped' \/ hstatus'[w] \in {"done", "crashed"}
        /\ \A r \in Codes : (~Exists(r) /\ Exists(r)') => r \notin DOMAIN rooms_teachers
      ]_vars

\* C3 witness: a teardown has told both participants of a room and the room is gone
C3_BothParticipantsClosed ==
    \E w1, w2 \in StudentConns :
        /\ w1 # w2
        /\ hist.joined[w1] = hist.joined[w2]
        /\ hist.joined[w1] \notin DOMAIN rooms_teachers
        /\ \A w \in {w1, w2} : /\ hist.tnote[w] = "sent"
                               /\ closed[w] = CloseRoomClosed
                               /\ Received(w, "room_closed")

\* C4: a join succeeds only into a room that has a live supervisor at that
\* moment, and no participant map is left behind for a room that is gone.
C4_JoinOnlyUnderLiveSupervisor ==
    [][ /\ \A h \in StudentConns :
             (hist.joined[h] = NoCode /\ hist.joined'[h] # NoCode) =>
                 /\ hist.joined'[h] \in DOMAIN rooms_teachers'
                 /\ \E t \in SeqSet(rooms_teachers'[hist.joined'[h]].list) : Serving(t)'
        /\ \A r \in DOMAIN rooms_students' : r \in DOMAIN rooms_teachers'
      ]_vars

\* C5: a participant handler that has ended without a join, and whose client
\* did not go away, has sent the error message and closed the connection with
\* a close code.
C5_FailedJoinIsTold ==
    \A h \in StudentConns :
        (hstatus[h] = "done" /\ hist.joined[h] = NoCode /\ h \notin hist.dropped)
        => /\ Received(h, "error")
           /\ closed[h] # 0

InBroadcastToTeachers(h) ==
    \E i \in 1..Len(stack[h]) : stack[h][i].fn = "broadcast_to_room_teachers"

\* C6: once no broadcast to supervisors is in progress, no connection on which
\* such a broadcast failed is still in a room's supervisor set.
C6_FailedSupervisorRemoved ==
    (\A h \in Conns : ~InBroadcastToTeachers(h)) =>
        \A w \in hist.tfailed : \A r \in DOMAIN rooms_teachers : w \notin Supervisors(r)

\* the student_leave messages connection t has received about the session of w
Leaves(t, w) == {m \in BagToSet(out[t]) : m.type = "student_leave" /\ m.who = w}

\* C7: a connection receives at most one leave notification per participant
\* session, and a repeated cleanup of a session changes no registry state.
C7_OneLeavePerSession ==
    /\ ~hist.recleaned
    /\ \A t \in Conns, w \in StudentConns :
         /\ Cardinality(Leaves(t, w)) <= 1
         /\ \A m \in Leaves(t, w) : out[t][m] = 1

Registered(h) ==
    \E r \in DOMAIN rooms_students : h \in Participants(r)
Listed(h) ==
    \E r \in DOMAIN rooms_students_info :
        \E sid \in DOMAIN rooms_students_info[r] : rooms_students_info[r][sid].name = h

\* C8: when every handler has run to its end, no participant whose connection
\* is closed is left in a participant map or a status map.
C8_ClosedSessionRemoved ==
    AllEnded => \A h \in StudentConns : ~alive[h] => ~Registered(h) /\ ~Listed(h)

\* C9: a status update never raises; an update for a room or a participant
\* that is not in the registry is a no-op.
C9_UpdateNeverRaises ==
    \A h \in StudentConns : hist.exc[h] # "KeyError"

\* C10: a supervisor receives the attention updates of one participant
\* connection in the order of that connection's frames: none is delivered
\* after the update of a later frame.
C10_UpdatesInFrameOrder == ~hist.misordered

\* C10 witness: a supervisor that is still connected has received the updates
\* of two frames of one participant
C10_TwoUpdatesDelivered ==
    \E t \in TeacherConns : \E m1, m2 \in BagToSet(out[t]) :
        /\ Serving(t)
        /\ m1.type = "attention_update" /\ m2.type = "attention_update"
        /\ m1.who = m2.who
        /\ m1.seq = 1 /\ m2.seq = 2

\* C11: a supervisor's request whose requested code names no room never
\* creates a room under the requested code: when the generator would have
\* produced another code, no room of the requested code exists afterwards.
C11_RequestedCodeNotCreated ==
    [][\A h \in TeacherConns, room \in Codes, code \in Codes :
          (/\ room \notin DOMAIN rooms_teachers
           /\ code # room
           /\ SupervisorConnects(h, room, code))
          => room \notin DOMAIN rooms_teachers']_vars

\* C12: two supervisors that each asked for a new room are never placed in
\* the same room, whatever the interleaving of their requests (every
\* supervisor of this specification asks for a new room).
C12_CreatorsNeverShare ==
    \A r \in DOMAIN rooms_teachers : Cardinality(Supervisors(r)) <= 1

\* the step takes supervisor t out of the registry
Deregistered(t) == t \in DOMAIN teacher_rooms /\ t \notin DOMAIN teacher_rooms'
\* the step does not disconnect supervisor u of room r: u keeps its
\* registration and is not removed from the room's supervisor list
Remains(u, r) ==
    /\ u \in DOMAIN teacher_rooms' /\ teacher_rooms'[u] = r
    /\ r \in DOMAIN rooms_teachers' => u \in SeqSet(rooms_teachers'[r].list)
\* the room_closed notices that participant w has been sent
ClosedNotices(w) == {m \in BagToSet(out[w]) : m.type = "room_closed"}

\* C13: when a supervisor disconnects from a room in which another supervisor
\* remains, the room still exists with that supervisor, no supervisor is
\* added, the room's participant map and status snapshot are unchanged, and
\* no participant of the room is sent room_closed or closed.
C13_LeaveKeepsSharedRoom ==
    [][\A r \in DOMAIN rooms_teachers : \A t, u \in Supervisors(r) :
          (t # u /\ Deregistered(t) /\ Remains(u, r))
          => /\ r \in DOMAIN rooms_teachers'
             /\ u \in SeqSet(rooms_teachers'[r].list)
             /\ SeqSet(rooms_teachers'[r].list) \subseteq Supervisors(r) \ {t}
             /\ r \in DOMAIN rooms_students' /\ rooms_students'[r] = rooms_students[r]
             /\ r \in DOMAIN rooms_students_info'
             /\ rooms_students_info'[r] = rooms_students_info[r]
             /\ \A w \in Participants(r) :
                  /\ hist.tnote'[w] = hist.tnote[w]
                  /\ closed'[w] = closed[w]
                  /\ ClosedNotices(w)' = ClosedNotices(w)]_vars

\* C13 witness: a supervisor has left a room in which another supervisor and
\* a registered participant are still present
C13_LeftSharedRoom ==
    \E r \in DOMAIN rooms_teachers : \E t \in TeacherConns :
        /\ hstatus[t] = "done"
        /\ \E m \in BagToSet(out[t]) : m.type = "room_created" /\ m.room = r
        /\ t \notin Supervisors(r)
        /\ \E u \in Supervisors(r) : Serving(u)
        /\ r \in DOMAIN rooms_students
        /\ \E w \in Participants(r) : Serving(w) /\ hist.tnote[w] = "none" /\ closed[w] = 0

\* C14: a frame classified attentive while an alert is active for the
\* participant makes the alert policy emit a clear event, which is relayed to
\* the supervisors as clear_alert.
C14_AttentiveClearsAlert ==
    \A sid \in Sids :
        seen[sid].status = "attentive" /\ seen[sid].was_active
        => seen[sid].alert.alert_type = "clear_alert" /\ seen[sid].relayed = "clear_alert"

\* a classification other than attentive
Inattentive == {"looking_away", "drowsy", "no_face"}

\* C15: a frame classified other than attentive while no alert is active for
\* the participant (none was emitted, or an attentive frame followed the last
\* one) has an alert emitted for it, however recent the last alert is.
C15_InactiveAlertsAnew ==
    \A sid \in Sids :
        seen[sid].status \in Inattentive /\ ~seen[sid].was_active
        => seen[sid].alert # NoAlert

\* C16: in a run of frames of one status other than attentive, the first
\* frame has an alert emitted; a later frame has none when it arrives less
\* than the cooldown after the last emitted alert, and has an alert of the
\* run's type when it arrives at or after the cooldown.
C16_RunAlertsOncePerCooldown ==
    \A sid \in Sids :
        LET s == seen[sid]
        IN  s.status \in Inattentive
            => /\ s.prev # s.status => s.alert # NoAlert
               /\ s.prev = s.status /\ s.before_at # <<>>
                    => IF s.at - s.before_at[1] < ALERT_COOLDOWN
                       THEN s.alert = NoAlert
                       ELSE s.alert.alert_type = s.status

\* C17: while an alert is active for a participant and less than the
\* cooldown has passed since it was emitted, no further alert is emitted for
\* the participant, whatever the status of the frame.
C17_OneAlertPerCooldown ==
    \A sid \in Sids :
        LET s == seen[sid]
        IN  s.alert # NoAlert /\ s.was_active /\ s.before_at # <<>>
            => s.at - s.before_at[1] >= ALERT_COOLDOWN

\* C18: in a run of frames that all have EAR below the drowsy threshold and
\* pose and gaze in bounds, a frame arriving less than DROWSY_TIME_THRESHOLD
\* after the run's first frame is reported attentive, and a frame arriving at
\* or after it is reported drowsy.
C18_ClosureTimedFromFirstFrame ==
    \A sid \in Sids :
        LET s == seen[sid]
        IN  s.status # "none" /\ s.run_start # <<>>
            => s.status = IF s.at - s.run_start[1] < DROWSY_TIME_THRESHOLD
                          THEN "attentive" ELSE "drowsy"

\* C19: drowsy is reported only when the eyes have been closed for the
\* drowsy time since the first below-threshold frame after they were last
\* open, so a closure that ended early never counts; and a frame with the
\* eyes open leaves the closure timer cleared.
C19_RecoveryClearsTimer ==
    \A sid \in Sids :
        LET s == seen[sid]
        IN  /\ s.status = "drowsy"
                => s.low_since # <<>> /\ s.at - s.low_since[1] >= DROWSY_TIME_THRESHOLD
            /\ s.status # "none" /\ EyesOpen(s.frame)
                => analyzer.student_states[sid].eyes_closed_start = <<>>

\* C19 witness: after the eyes opened early in one closure, a later closure
\* has lasted the drowsy time and is reported
C19_LaterClosureReported ==
    \E sid \in Sids : seen[sid].recovered /\ seen[sid].status = "drowsy"

\* C20: a frame whose head yaw or pitch or whose gaze offset is beyond its
\* threshold is classified looking_away, whatever its EAR and however long
\* the eyes have been closed; it is never classified drowsy.
C20_PoseBeforeDrowsy ==
    \A sid \in Sids :
        seen[sid].status # "none" /\ OutOfPose(seen[sid].frame)
        => seen[sid].status = "looking_away"

\* C20 witness: a frame out of pose arrives with the eyes closed, after they
\* have been closed for the drowsy time, and is classified looking_away
C20_TurnedWhileEyesClosed ==
    \E sid \in Sids :
        LET s == seen[sid]
        IN  /\ OutOfPose(s.frame) /\ EyesClosed(s.frame)
            /\ s.low_since # <<>> /\ s.at - s.low_since[1] >= DROWSY_TIME_THRESHOLD
            /\ s.prev = "drowsy"
            /\ s.status = "looking_away"

\* C21: no_face is reported on a frame exactly when the frame ends a run of
\* at least NO_FACE_FRAMES consecutive frames without usable data; a frame
\* with data leaves the analyzer's count of missing frames at zero.
C21_NoFaceAfterThreeMissing ==
    \A sid \in Sids :
        LET s == seen[sid]
        IN  s.status # "none"
            => /\ s.status = "no_face" <=> s.missing >= NO_FACE_FRAMES
               /\ s.frame.keys # {}
                    => analyzer.student_states[sid].consecutive_no_face = 0
               /\ analyzer.student_states[sid].consecutive_no_face = s.missing

\* C21 witness: the third of three consecutive frames without data is
\* reported as no_face, after the second was still reported attentive
C21_ThirdMissingReported ==
    \E sid \in Sids :
        /\ seen[sid].status = "no_face" /\ seen[sid].missing = NO_FACE_FRAMES
        /\ seen[sid].prev = "attentive"

\* C22: as long as every frame of a session has all its fields absent, every
\* frame is classified attentive.
C22_AbsentFieldsStayAttentive ==
    \A sid \in Sids :
        seen[sid].status # "none" /\ seen[sid].bare => seen[sid].status = "attentive"

\* C23: every classification carries a confidence between 0 and 1, and a
\* classification of attentive carries a confidence of at least 0.9
\* (confidences are in hundredths).
C23_AttentiveIsConfident ==
    \A sid \in Sids :
        seen[sid].status # "none"
        => /\ seen[sid].confidence \in 0..100
           /\ seen[sid].status = "attentive" => seen[sid].confidence >= 90

\* C24: the time since the last significant movement does not affect the
\* classification: the engine reports for a frame the status it reports for
\* the same frame from the same eye-closure timer and no-face count when the
\* last significant movement is as recent as can be.
C24_MovementDoesNotClassify ==
    \A sid \in Sids : seen[sid].status = seen[sid].twin

\* C30: after a frame that a higher-priority condition decides, that is a
\* frame without usable data or a frame classified looking_away, no
\* eye-closure timer is running.
C30_PreemptionClearsTimer ==
    \A sid \in Sids :
        LET s == seen[sid]
        IN  s.status # "none" /\ (s.frame.keys = {} \/ s.status = "looking_away")
            => analyzer.student_states[sid].eyes_closed_start = <<>>

\* C25: once a participant's session has ended, the analyzer holds no tracking
\* state and no alert cooldown entry of that participant, and the first frame
\* of a session that is not classified attentive raises an alert.
C25_SessionEndLeavesNothing ==
    \A sid \in Sids :
        LET s == seen[sid]
        IN  /\ s.status = "none" /\ s.frames > 0
                => /\ sid \notin DOMAIN analyzer.student_states
                   /\ \A key \in DOMAIN analyzer.last_alert_time : key[1] # sid
            /\ s.status \in Inattentive /\ s.prev = "none" => s.alert # NoAlert

\* C26: a participant's handler in which a received message has raised an
\* error, while its transport has not failed and nobody has closed its
\* connection, is still serving and still registered in a room.
C26_MalformedKeepsSession ==
    \A h \in StudentConns :
        hist.exc[h] = "AttributeError" /\ alive[h] /\ closed[h] = 0
            => Serving(h) /\ Registered(h)

\* the handlers that are inside an "async with self.lock" block
InsideLock == {h \in Conns : \E i \in DOMAIN stack[h] : stack[h][i].pc \in LockedPcs}

\* C28: no handler has written a shared map of the registry without holding
\* the lock, and at most one handler, the owner of the lock, is inside a
\* lock-guarded block.
C28_WritesUnderLock ==
    /\ ~hist.unguarded
    /\ Cardinality(InsideLock) <= 1
    /\ \A h \in InsideLock : lock.locked_by = h

\* C29: no broadcast is aborted by a connection that joins or leaves the room
\* while the broadcast is suspended at a send: iterating the room's
\* connections never raises in the broadcasting handler.
C29_BroadcastSurvivesChange ==
    \A h \in Conns : hist.exc[h] # "RuntimeError"

\* C27: the analyzer's state of a participant id is read and written for the
\* frames of one connection only.
C27_OneHandlerPerEngineState ==
    \A sid \in Sids : Cardinality(hist.tracked[sid]) <= 1

\* the participant ids of room r in the connection map
Ids(r) == {e.sid : e \in SeqSet(DLive(rooms_students[r].ents))}

\* C31: while no critical section is in progress the supervisor map, the
\* connection map and the info map hold the same room codes, and for every
\* room the connection map and the info map hold the same participant ids.
C31_MapsAgree ==
    NoCriticalSection =>
        /\ DOMAIN rooms_teachers = DOMAIN rooms_students
        /\ DOMAIN rooms_students = DOMAIN rooms_students_info
        /\ \A r \in DOMAIN rooms_students : Ids(r) = DOMAIN rooms_students_info[r]

\* a participant is in both maps of a room after another one has been
\* removed from them, and no critical section is in progress
C31_RoomAfterLeave ==
    /\ NoCriticalSection
    /\ \E r \in DOMAIN rooms_students : Ids(r) # {} /\ Ids(r) = DOMAIN rooms_students_info[r]
    /\ \E h \in StudentConns : hist.cleanups[h] > 0

\* handler h is suspended at the acquisition of the lock
Waiting(h) == stack[h] # <<>> /\ Head(stack[h]).pc = "wait"

\* the owner of the lock is a handler inside a lock-guarded block, or one
\* that has been handed the lock and not resumed yet; it is not queued
LockOwned ==
    /\ \A h \in Conns : ~(lock.locked_by = h /\ h \in SeqSet(lock.waiters))
    /\ lock.locked_by # NoConn => lock.locked_by \in InsideLock \/ Waiting(lock.locked_by)
    /\ \A h \in SeqSet(lock.waiters) : Waiting(h) /\ lock.locked_by # NoConn

\* C32: no handler waits for the lock while holding it, the lock is owned
\* only by a handler that is inside a lock-guarded block or about to enter
\* it, and every handler that waits for the lock stops waiting.
C32_LockAlwaysReleased ==
    /\ []LockOwned
    /\ \A h \in LockUsers.A \cup LockUsers.T \cup LockUsers.S : Waiting(h) ~> ~Waiting(h)

\* a handler waits for the lock after a lock-guarded block has ended with an
\* exception, while another handler holds the lock in a teardown
C32_WaitsDuringTeardown ==
    \E h, o, x \in Conns :
        /\ h \in SeqSet(lock.waiters)
        /\ lock.locked_by = o /\ At(o, "disconnect_teacher", "notify")
        /\ x \in TeacherConns /\ hist.exc[x] = "AttributeError"

\* the connection is open and its handler is serving it
Open(h) == alive[h] /\ Serving(h) /\ closed[h] = 0

\* C33: the cleanup of a participant connection takes no open connection of
\* another session out of the participant and status maps and does not reset
\* the analyzer state that another open connection is using.
C33_CleanupTakesOwnSession ==
    /\ \A w \in hist.evicted : ~Open(w)
    /\ \A w \in hist.wiped : ~Open(w)

\* the messages that a room broadcasts to its members
RoomNotices == {"attention_update", "alert", "student_join", "student_leave", "chat_message"}
\* the room a connection has entered
RoomOf(h) == IF h \in StudentConns THEN hist.joined[h] ELSE hist.entered[h]

====
